---- MODULE Spec2Model ----
(***************************************************************************)
(* Model of repo_manage.command.exec: the command expression parser        *)
(* (Cmd.parse, Cmd.append, the node constructors), the tree executor       *)
(* (the execute methods) and the per-repository loop of exec_cmd.          *)
(*                                                                         *)
(* A node is a record.  A CmdSingle is [type, args]; a CmdSequence, CmdOr  *)
(* or CmdAnd is [type, command] with command the list of children.  An     *)
(* exception is a record with the field raised.                            *)
(***************************************************************************)
EXTENDS Integers, Sequences, FiniteSets, TLC

VARIABLES
    double_dash_args,   \* the tokens after "--"
    check,              \* --check / --no-check
    capture,            \* --capture
    pc,                 \* "parse", "loop" or "done"
    command,            \* the value of Cmd.parse, or the exception it raised
    repo,               \* index of the next repository of local_repositories
    events,             \* what the last call of command.execute did
    visited,            \* per repository visited: how the execute call ended
    exit_status         \* how the invocation ended: "", "ok" or the exception

vars == <<double_dash_args, check, capture, pc, command, repo, events,
          visited, exit_status>>

----------------------------------------------------------------------------
(* Bounds of the model. *)

MaxLen == 5
MaxChain == 4
NumRepos == 2

----------------------------------------------------------------------------
(* Nodes and exceptions. *)

\* CmdSingle.__init__ keeping the first argument only
CmdSingleFirstOnly(args) == [type |-> "CmdSingle", args |-> <<Head(args)>>]

CmdSingleNew(args) == [type |-> "CmdSingle", args |-> args]

Node(cls, children) == [type |-> cls, command |-> children]

ValueError(msg) == [raised |-> "ValueError", msg |-> msg]

IsRaised(x) == "raised" \in DOMAIN x

IsInstance(x, cls) == x.type = cls

\* the loop of the three __init__ methods: a child of the node's own class is
\* replaced by its children, any other child is kept
RECURSIVE Collect(_, _)
Collect(cls, cmds) ==
    IF cmds = <<>> THEN <<>>
    ELSE LET cmd == Head(cmds) IN
         (IF IsInstance(cmd, cls) THEN cmd.command ELSE <<cmd>>)
            \o Collect(cls, Tail(cmds))

\* CmdSequence.__init__ appending every child, a CmdSequence too
CmdSequenceNoFlatten(cmds) == Node("CmdSequence", cmds)

CmdSequence(cmds) == Node("CmdSequence", Collect("CmdSequence", cmds))

\* CmdOr.__init__ appending every child, a CmdOr too
CmdOrNoFlatten(cmds) == Node("CmdOr", cmds)

CmdOr(cmds) == Node("CmdOr", Collect("CmdOr", cmds))

\* CmdAnd.__init__ appending every child, a CmdAnd too
CmdAndNoFlatten(cmds) == Node("CmdAnd", cmds)

CmdAnd(cmds) == Node("CmdAnd", Collect("CmdAnd", cmds))

\* x.__class__(*cmds) for x a CmdSequence, CmdOr or CmdAnd
New(cls, cmds) ==
    CASE cls = "CmdSequence" -> CmdSequence(cmds)
      [] cls = "CmdOr" -> CmdOr(cmds)
      [] cls = "CmdAnd" -> CmdAnd(cmds)

\* Cmd.append with the operands of "other.__class__(self, other)" swapped
appendSwapped(self, other) ==
    IF IsInstance(self, "CmdSequence") \/ IsInstance(other, "CmdSequence")
    THEN CmdSequence(<<self, other>>)
    ELSE IF IsInstance(self, "CmdSingle") /\ IsInstance(other, "CmdSingle")
    THEN CmdSequence(<<self, other>>)
    ELSE IF IsInstance(self, "CmdSingle")
    THEN New(other.type, <<other, self>>)
    ELSE New(self.type, <<self, other>>)

\* Cmd.append
append(self, other) ==
    IF IsInstance(self, "CmdSequence") \/ IsInstance(other, "CmdSequence")
    THEN CmdSequence(<<self, other>>)
    ELSE IF IsInstance(self, "CmdSingle") /\ IsInstance(other, "CmdSingle")
    THEN CmdSequence(<<self, other>>)
    ELSE IF IsInstance(self, "CmdSingle")
    THEN New(other.type, <<self, other>>)
    ELSE New(self.type, <<self, other>>)

----------------------------------------------------------------------------
(* Cmd.parse *)

\* x in args[from:], and args.index(x, from), with 1-based positions
Occurs(args, x, from) == \E i \in from..Len(args) : args[i] = x

IndexOf(args, x, from) ==
    CHOOSE i \in from..Len(args) :
        args[i] = x /\ \A j \in from..(i - 1) : args[j] # x

\* "if current_args: stack.append(CmdSingle(*current_args))"
Flush(current_args, stack) ==
    IF current_args # <<>> THEN Append(stack, CmdSingleNew(current_args))
    ELSE stack

\* the combination pass without the split at the CmdSequence markers
GroupByNone(stack) == <<stack>>

\* itertools.groupby(stack, key=isinstance(x, CmdSequence)): the maximal runs
\* of consecutive elements with the same key
RECURSIVE GroupBy(_)
GroupBy(stack) ==
    IF stack = <<>> THEN <<>>
    ELSE LET key == IsInstance(stack[1], "CmdSequence")
             n == CHOOSE k \in 1..Len(stack) :
                    /\ \A i \in 1..k : IsInstance(stack[i], "CmdSequence") = key
                    /\ (k < Len(stack) =>
                          IsInstance(stack[k + 1], "CmdSequence") # key)
         IN <<SubSeq(stack, 1, n)>> \o GroupBy(SubSeq(stack, n + 1, Len(stack)))

\* "while len(substack) > 1: last = substack.pop();
\*  substack[-1] = substack[-1].append(last)"
RECURSIVE Fold(_)
Fold(substack) ==
    IF Len(substack) <= 1 THEN substack
    ELSE LET n == Len(substack)
             last == substack[n]
         IN Fold(Append(SubSeq(substack, 1, n - 2),
                        append(substack[n - 1], last)))

\* the combination pass returning the first run whatever the number of runs
CombineFirstRunOnly(stack) == Fold(GroupBy(stack)[1])[1]

\* the combination pass
Combine(stack) ==
    LET substacks == [i \in DOMAIN GroupBy(stack) |-> Fold(GroupBy(stack)[i])]
    IN IF Len(substacks) = 1 THEN substacks[1][1]
       ELSE CmdSequence([i \in DOMAIN substacks |-> substacks[i][1]])

RECURSIVE Parse(_), Scan(_, _, _, _)

\* the scan loop with the "{" branch looking for ")" as the end of its group
ScanBraceClosedByParenthesis(args, idx, current_args, stack) ==
    IF idx > Len(args) THEN [stack |-> Flush(current_args, stack)]
    ELSE LET arg == args[idx] IN
    CASE arg = "(" ->
            IF current_args # <<>>
            THEN ValueError("Unexpected argument before opening parenthesis.")
            ELSE IF ~Occurs(args, ")", idx + 1)
            THEN ValueError("Unmatched opening parenthesis.")
            ELSE LET end_idx == IndexOf(args, ")", idx + 1)
                     sub == Parse(SubSeq(args, idx + 1, end_idx - 1))
                 IN IF IsRaised(sub) THEN sub
                    ELSE Scan(args, end_idx + 1, current_args,
                              Append(stack, sub))
      [] arg = "{" ->
            IF current_args # <<>>
            THEN ValueError("Unexpected argument before opening brace.")
            ELSE IF ~Occurs(args, ")", idx + 1)
            THEN ValueError("Unmatched opening brace.")
            ELSE LET end_idx == IndexOf(args, ")", idx + 1)
                     sub == Parse(SubSeq(args, idx + 1, end_idx - 1))
                 IN IF IsRaised(sub) THEN sub
                    ELSE Scan(args, end_idx + 1, current_args,
                              Append(stack, sub))
      [] arg \in {")", "}"} ->
            ValueError("Unmatched closing parenthesis or brace.")
      [] arg = ";" ->
            Scan(args, idx + 1, <<>>,
                 Append(Flush(current_args, stack), CmdSequence(<<>>)))
      [] arg = "||" ->
            Scan(args, idx + 1, <<>>,
                 Append(Flush(current_args, stack), CmdOr(<<>>)))
      [] arg = "&&" ->
            Scan(args, idx + 1, <<>>,
                 Append(Flush(current_args, stack), CmdAnd(<<>>)))
      [] OTHER ->
            Scan(args, idx + 1, Append(current_args, arg), stack)

\* the scan loop with the search for the closing bracket made before the
\* test of the argument buffer
ScanUnmatchedFirst(args, idx, current_args, stack) ==
    IF idx > Len(args) THEN [stack |-> Flush(current_args, stack)]
    ELSE LET arg == args[idx] IN
    CASE arg = "(" ->
            IF ~Occurs(args, ")", idx + 1)
            THEN ValueError("Unmatched opening parenthesis.")
            ELSE IF current_args # <<>>
            THEN ValueError("Unexpected argument before opening parenthesis.")
            ELSE LET end_idx == IndexOf(args, ")", idx + 1)
                     sub == Parse(SubSeq(args, idx + 1, end_idx - 1))
                 IN IF IsRaised(sub) THEN sub
                    ELSE Scan(args, end_idx + 1, current_args,
                              Append(stack, sub))
      [] arg = "{" ->
            IF ~Occurs(args, "}", idx + 1)
            THEN ValueError("Unmatched opening brace.")
            ELSE IF current_args # <<>>
            THEN ValueError("Unexpected argument before opening brace.")
            ELSE LET end_idx == IndexOf(args, "}", idx + 1)
                     sub == Parse(SubSeq(args, idx + 1, end_idx - 1))
                 IN IF IsRaised(sub) THEN sub
                    ELSE Scan(args, end_idx + 1, current_args,
                              Append(stack, sub))
      [] arg \in {")", "}"} ->
            ValueError("Unmatched closing parenthesis or brace.")
      [] arg = ";" ->
            Scan(args, idx + 1, <<>>,
                 Append(Flush(current_args, stack), CmdSequence(<<>>)))
      [] arg = "||" ->
            Scan(args, idx + 1, <<>>,
                 Append(Flush(current_args, stack), CmdOr(<<>>)))
      [] arg = "&&" ->
            Scan(args, idx + 1, <<>>,
                 Append(Flush(current_args, stack), CmdAnd(<<>>)))
      [] OTHER ->
            Scan(args, idx + 1, Append(current_args, arg), stack)

\* the scan loop without the branch of the closing brackets: a ")" or "}"
\* met by the loop is an argument like any other
ScanClosingAsArgument(args, idx, current_args, stack) ==
    IF idx > Len(args) THEN [stack |-> Flush(current_args, stack)]
    ELSE LET arg == args[idx] IN
    CASE arg = "(" ->
            IF current_args # <<>>
            THEN ValueError("Unexpected argument before opening parenthesis.")
            ELSE IF ~Occurs(args, ")", idx + 1)
            THEN ValueError("Unmatched opening parenthesis.")
            ELSE LET end_idx == IndexOf(args, ")", idx + 1)
                     sub == Parse(SubSeq(args, idx + 1, end_idx - 1))
                 IN IF IsRaised(sub) THEN sub
                    ELSE Scan(args, end_idx + 1, current_args,
                              Append(stack, sub))
      [] arg = "{" ->
            IF current_args # <<>>
            THEN ValueError("Unexpected argument before opening brace.")
            ELSE IF ~Occurs(args, "}", idx + 1)
            THEN ValueError("Unmatched opening brace.")
            ELSE LET end_idx == IndexOf(args, "}", idx + 1)
                     sub == Parse(SubSeq(args, idx + 1, end_idx - 1))
                 IN IF IsRaised(sub) THEN sub
                    ELSE Scan(args, end_idx + 1, current_args,
                              Append(stack, sub))
      [] arg = ";" ->
            Scan(args, idx + 1, <<>>,
                 Append(Flush(current_args, stack), CmdSequence(<<>>)))
      [] arg = "||" ->
            Scan(args, idx + 1, <<>>,
                 Append(Flush(current_args, stack), CmdOr(<<>>)))
      [] arg = "&&" ->
            Scan(args, idx + 1, <<>>,
                 Append(Flush(current_args, stack), CmdAnd(<<>>)))
      [] OTHER ->
            Scan(args, idx + 1, Append(current_args, arg), stack)

\* the scan loop from position idx on; its value holds the stack with the
\* argument buffer flushed at the end of the input, or is the exception raised
Scan(args, idx, current_args, stack) ==
    IF idx > Len(args) THEN [stack |-> Flush(current_args, stack)]
    ELSE LET arg == args[idx] IN
    CASE arg = "(" ->
            IF current_args # <<>>
            THEN ValueError("Unexpected argument before opening parenthesis.")
            ELSE IF ~Occurs(args, ")", idx + 1)
            THEN ValueError("Unmatched opening parenthesis.")
            ELSE LET end_idx == IndexOf(args, ")", idx + 1)
                     sub == Parse(SubSeq(args, idx + 1, end_idx - 1))
                 IN IF IsRaised(sub) THEN sub
                    ELSE Scan(args, end_idx + 1, current_args,
                              Append(stack, sub))
      [] arg = "{" ->
            IF current_args # <<>>
            THEN ValueError("Unexpected argument before opening brace.")
            ELSE IF ~Occurs(args, "}", idx + 1)
            THEN ValueError("Unmatched opening brace.")
            ELSE LET end_idx == IndexOf(args, "}", idx + 1)
                     sub == Parse(SubSeq(args, idx + 1, end_idx - 1))
                 IN IF IsRaised(sub) THEN sub
                    ELSE Scan(args, end_idx + 1, current_args,
                              Append(stack, sub))
      [] arg \in {")", "}"} ->
            ValueError("Unmatched closing parenthesis or brace.")
      [] arg = ";" ->
            Scan(args, idx + 1, <<>>,
                 Append(Flush(current_args, stack), CmdSequence(<<>>)))
      [] arg = "||" ->
            Scan(args, idx + 1, <<>>,
                 Append(Flush(current_args, stack), CmdOr(<<>>)))
      [] arg = "&&" ->
            Scan(args, idx + 1, <<>>,
                 Append(Flush(current_args, stack), CmdAnd(<<>>)))
      [] OTHER ->
            Scan(args, idx + 1, Append(current_args, arg), stack)

Parse(args) ==
    IF args = <<>> THEN ValueError("No command provided.")
    ELSE LET scanned == Scan(args, 1, <<>>, <<>>) IN
         IF IsRaised(scanned) THEN scanned
         ELSE IF Len(scanned.stack) = 0 THEN ValueError("No command provided.")
         ELSE Combine(scanned.stack)

----------------------------------------------------------------------------
(* Execution results.  A stream is absent (None) or a text; a text is the    *)
(* sequence of its pieces.                                                   *)

None == [present |-> FALSE, text |-> <<>>]

Str(text) == [present |-> TRUE, text |-> text]

CmdResult(exit_code, stdout, stderr) ==
    [exit_code |-> exit_code, stdout |-> stdout, stderr |-> stderr]

Raise(kind) == [raised |-> kind]

\* what a child process can do: not start at all, or exit with returncode
\* having written (or not) to its standard output and standard error
Outcomes ==
    { [launched |-> TRUE, returncode |-> 0, out |-> TRUE, err |-> FALSE],
      [launched |-> TRUE, returncode |-> 1, out |-> FALSE, err |-> TRUE],
      [launched |-> TRUE, returncode |-> 2, out |-> TRUE, err |-> TRUE],
      [launched |-> FALSE, returncode |-> 0, out |-> FALSE, err |-> FALSE] }

\* subprocess.run that never raises CalledProcessError
SubprocessRunNoCheck(args, chk, cap, o) ==
    IF ~o.launched THEN Raise("FileNotFoundError")
    ELSE [returncode |-> o.returncode,
          stdout |-> IF cap THEN Str(IF o.out THEN args ELSE <<>>) ELSE None,
          stderr |-> IF cap THEN Str(IF o.err THEN args ELSE <<>>) ELSE None]

\* subprocess.run called with check=True whatever the flag
SubprocessRunAlwaysCheck(args, chk, cap, o) ==
    IF ~o.launched THEN Raise("FileNotFoundError")
    ELSE IF o.returncode # 0 THEN Raise("CalledProcessError")
    ELSE [returncode |-> o.returncode,
          stdout |-> IF cap THEN Str(IF o.out THEN args ELSE <<>>) ELSE None,
          stderr |-> IF cap THEN Str(IF o.err THEN args ELSE <<>>) ELSE None]

\* subprocess.run(args, cwd=cwd, check=check, capture_output=capture,
\* text=True) for a child process that does o; a process that writes, writes
\* its own command line
SubprocessRun(args, chk, cap, o) ==
    IF ~o.launched THEN Raise("FileNotFoundError")
    ELSE IF chk /\ o.returncode # 0 THEN Raise("CalledProcessError")
    ELSE [returncode |-> o.returncode,
          stdout |-> IF cap THEN Str(IF o.out THEN args ELSE <<>>) ELSE None,
          stderr |-> IF cap THEN Str(IF o.err THEN args ELSE <<>>) ELSE None]

\* "\n######\n".join(texts)
RECURSIVE Join(_)
Join(texts) ==
    IF texts = <<>> THEN <<>>
    ELSE IF Len(texts) = 1 THEN texts[1]
    ELSE texts[1] \o <<"\n######\n">> \o Join(Tail(texts))

\* "result.stdout or ''"
OrEmpty(stream) == IF stream.present THEN stream.text ELSE <<>>

\* the return statement giving the streams of the last result only
ReturnedLastOnly(results, cap) ==
    IF results = <<>> THEN Raise("IndexError")
    ELSE CmdResult(
            results[Len(results)].exit_code,
            IF cap THEN Str(OrEmpty(results[Len(results)].stdout)) ELSE None,
            IF cap THEN Str(OrEmpty(results[Len(results)].stderr)) ELSE None)

\* the return statement shared by the execute methods of CmdSequence, CmdOr
\* and CmdAnd; results[-1] of an empty list raises IndexError
Returned(results, cap) ==
    IF results = <<>> THEN Raise("IndexError")
    ELSE CmdResult(
            results[Len(results)].exit_code,
            IF cap
            THEN Str(Join([i \in DOMAIN results |-> OrEmpty(results[i].stdout)]))
            ELSE None,
            IF cap
            THEN Str(Join([i \in DOMAIN results |-> OrEmpty(results[i].stderr)]))
            ELSE None)

\* CmdOr.execute breaking on a failure instead of a success
CmdOrBreakOnFailure(result) == result.exit_code # 0

\* "if result.exit_code == 0: break" of CmdOr.execute
CmdOrBreak(result) == result.exit_code = 0

\* CmdAnd.execute without its break
CmdAndBreakNever(result) == FALSE

\* "if result.exit_code != 0: break" of CmdAnd.execute
CmdAndBreak(result) == result.exit_code # 0

\* whether the loop over the children of a node of class cls stops after a
\* child returned result; CmdSequence.execute has no break
Break(cls, result) ==
    CASE cls = "CmdOr" -> CmdOrBreak(result)
      [] cls = "CmdAnd" -> CmdAndBreak(result)
      [] OTHER -> FALSE

\* An execute call is followed through the tree.  cx holds check, capture and
\* env, env[k] being what the k-th child process started by the call does; n
\* counts the child processes started so far; path is the position of the
\* node in the tree (the child indexes from the root).  The value holds ret
\* (the CmdResult returned or the exception raised), n, and the events: one
\* record per execute call that ended, in the order they ended.
RECURSIVE Execute(_, _, _, _), RunChildren(_, _, _, _, _, _)

\* CmdSingle.execute calling subprocess.run with check=False
CmdSingleExecuteUnchecked(self, path, cx, n) ==
    LET result == SubprocessRun(self.args, FALSE, cx.capture, cx.env[n + 1])
        ret == IF IsRaised(result) THEN result
               ELSE CmdResult(result.returncode,
                              IF cx.capture THEN result.stdout ELSE None,
                              IF cx.capture THEN result.stderr ELSE None)
    IN [ret |-> ret, n |-> n + 1,
        events |-> <<[path |-> path, type |-> self.type, ret |-> ret]>>]

CmdSingleExecute(self, path, cx, n) ==
    LET result == SubprocessRun(self.args, cx.check, cx.capture, cx.env[n + 1])
        ret == IF IsRaised(result) THEN result
               ELSE CmdResult(result.returncode,
                              IF cx.capture THEN result.stdout ELSE None,
                              IF cx.capture THEN result.stderr ELSE None)
    IN [ret |-> ret, n |-> n + 1,
        events |-> <<[path |-> path, type |-> self.type, ret |-> ret]>>]

\* the loop over the children going on to the next child after a child whose
\* execute raised, as if the exception were caught and dropped
RunChildrenPastError(self, i, path, cx, n, results) ==
    IF i > Len(self.command)
    THEN [exc |-> <<>>, results |-> results, n |-> n, events |-> <<>>]
    ELSE LET r == Execute(self.command[i], Append(path, i), cx, n) IN
         IF IsRaised(r.ret)
         THEN LET rest == RunChildren(self, i + 1, path, cx, r.n, results)
              IN [rest EXCEPT !.events = r.events \o @]
         ELSE IF Break(self.type, r.ret)
         THEN [exc |-> <<>>, results |-> Append(results, r.ret), n |-> r.n,
               events |-> r.events]
         ELSE LET rest == RunChildren(self, i + 1, path, cx, r.n,
                                      Append(results, r.ret))
              IN [rest EXCEPT !.events = r.events \o @]

\* "for cmd in self.command: result = cmd.execute(...); results.append(result)"
\* from child i on, with the break of the node's class
RunChildren(self, i, path, cx, n, results) ==
    IF i > Len(self.command)
    THEN [exc |-> <<>>, results |-> results, n |-> n, events |-> <<>>]
    ELSE LET r == Execute(self.command[i], Append(path, i), cx, n) IN
         IF IsRaised(r.ret)
         THEN [exc |-> <<r.ret>>, results |-> results, n |-> r.n,
               events |-> r.events]
         ELSE IF Break(self.type, r.ret)
         THEN [exc |-> <<>>, results |-> Append(results, r.ret), n |-> r.n,
               events |-> r.events]
         ELSE LET rest == RunChildren(self, i + 1, path, cx, r.n,
                                      Append(results, r.ret))
              IN [rest EXCEPT !.events = r.events \o @]

CmdSequenceExecute(self, path, cx, n) ==
    LET run == RunChildren(self, 1, path, cx, n, <<>>)
        ret == IF run.exc # <<>> THEN run.exc[1]
               ELSE Returned(run.results, cx.capture)
    IN [ret |-> ret, n |-> run.n,
        events |-> Append(run.events,
                          [path |-> path, type |-> self.type, ret |-> ret])]

CmdOrExecute(self, path, cx, n) ==
    LET run == RunChildren(self, 1, path, cx, n, <<>>)
        ret == IF run.exc # <<>> THEN run.exc[1]
               ELSE Returned(run.results, cx.capture)
    IN [ret |-> ret, n |-> run.n,
        events |-> Append(run.events,
                          [path |-> path, type |-> self.type, ret |-> ret])]

CmdAndExecute(self, path, cx, n) ==
    LET run == RunChildren(self, 1, path, cx, n, <<>>)
        ret == IF run.exc # <<>> THEN run.exc[1]
               ELSE Returned(run.results, cx.capture)
    IN [ret |-> ret, n |-> run.n,
        events |-> Append(run.events,
                          [path |-> path, type |-> self.type, ret |-> ret])]

Execute(self, path, cx, n) ==
    CASE self.type = "CmdSingle" -> CmdSingleExecute(self, path, cx, n)
      [] self.type = "CmdSequence" -> CmdSequenceExecute(self, path, cx, n)
      [] self.type = "CmdOr" -> CmdOrExecute(self, path, cx, n)
      [] self.type = "CmdAnd" -> CmdAndExecute(self, path, cx, n)

\* the number of CmdSingle nodes of a tree
RECURSIVE Leaves(_), LeavesOf(_)
LeavesOf(cmds) ==
    IF cmds = <<>> THEN 0 ELSE Leaves(Head(cmds)) + LeavesOf(Tail(cmds))

Leaves(node) ==
    IF node.type = "CmdSingle" THEN 1 ELSE LeavesOf(node.command)

----------------------------------------------------------------------------
(* str(cmd).  A text is the sequence of its pieces: the words, the operators,  *)
(* the brackets and the single spaces, as __str__ writes them.               *)

\* sep.join(texts)
RECURSIVE JoinWith(_, _)
JoinWith(sep, texts) ==
    IF texts = <<>> THEN <<>>
    ELSE IF Len(texts) = 1 THEN texts[1]
    ELSE texts[1] \o sep \o JoinWith(sep, Tail(texts))

RECURSIVE ToStr(_)

\* " ".join(self.command)
CmdSingleStr(self) ==
    JoinWith(<<" ">>, [i \in DOMAIN self.args |-> <<self.args[i]>>])

\* " ; ".join(f"({cmd})" for cmd in self.command)
CmdSequenceStr(self) ==
    JoinWith(<<" ", ";", " ">>,
             [i \in DOMAIN self.command |->
                <<"(">> \o ToStr(self.command[i]) \o <<")">>])

\* " || ".join(f"({cmd})" for cmd in self.command)
CmdOrStr(self) ==
    JoinWith(<<" ", "||", " ">>,
             [i \in DOMAIN self.command |->
                <<"(">> \o ToStr(self.command[i]) \o <<")">>])

\* " && ".join(f"({cmd})" for cmd in self.command)
CmdAndStr(self) ==
    JoinWith(<<" ", "&&", " ">>,
             [i \in DOMAIN self.command |->
                <<"(">> \o ToStr(self.command[i]) \o <<")">>])

ToStr(self) ==
    CASE self.type = "CmdSingle" -> CmdSingleStr(self)
      [] self.type = "CmdSequence" -> CmdSequenceStr(self)
      [] self.type = "CmdOr" -> CmdOrStr(self)
      [] self.type = "CmdAnd" -> CmdAndStr(self)

----------------------------------------------------------------------------
(* The inputs. *)

Words == {"a", "b"}

Separators == {";", "&&", "||"}

Brackets == {"(", ")", "{", "}"}

Tokens == Words \cup Separators \cup Brackets

\* every token list of at most n tokens
ListsUpTo(S, n) == UNION {[1..k -> S] : k \in 0..n}

\* c1 op1 c2 ... cn for at most n commands, each of one or two words, joined
\* by operators of ops
RECURSIVE Chains(_, _)
Chains(ops, n) ==
    LET cmds == {<<"a">>, <<"b">>, <<"a", "b">>} IN
    IF n = 1 THEN cmds
    ELSE Chains(ops, n - 1)
         \cup {c \o <<op>> \o rest :
                 c \in cmds, op \in ops, rest \in Chains(ops, n - 1)}

\* the token lists of the examples of nesting: one level of grouping on
\* either side of an operator, a group inside a group of the same and of the
\* other bracket kind
Grouped ==
    LET open == {"(", "{"}
        close(o) == IF o = "(" THEN ")" ELSE "}"
        pairs == {<<x, op, y>> : x \in {"b"}, op \in Separators, y \in {"c"}}
        group(o, t) == <<o>> \o t \o <<close(o)>>
    IN  {<<"a", op1>> \o group(o, <<"b", op2, "c">>) :
            op1 \in Separators, op2 \in Separators, o \in open}
        \cup {group(o, <<"a", op1, "b">>) \o <<op2, "c">> :
            op1 \in Separators, op2 \in Separators, o \in open}
        \cup {<<"a", op1>> \o group(o1, <<"b", op2>> \o group(o2, <<"c", op3, "d">>)) :
            op1 \in {"&&"}, op2 \in {"||"}, op3 \in {"&&", ";"},
            o1 \in open, o2 \in open}
        \cup {<<"x", "&&">> \o group(o, <<"y", "||", "z">>) \o <<";", "w">> :
            o \in open}

ParseInputs ==
    ListsUpTo(Tokens, MaxLen) \cup Chains({"&&", "||"}, MaxChain) \cup Grouped

\* the command lines run over the repositories: chains of at most three
\* one-word commands, with and without one group, and lines without a
\* command or with a dangling operator
ExecInputs ==
    {<<"a">>, <<>>, <<"&&">>, <<"a", ";", "&&">>, <<"a", "||">>, <<"(", "a">>}
    \cup {<<"a", op, "b">> : op \in Separators}
    \cup {<<"a", op1, "b", op2, "c">> : op1 \in Separators, op2 \in Separators}
    \cup {<<"a", op1, "(", "b", op2, "c", ")">> :
            op1 \in Separators, op2 \in Separators}
    \cup {<<"(", "a", op1, "b", ")", op2, "c">> :
            op1 \in Separators, op2 \in Separators}

----------------------------------------------------------------------------
(* exec_cmd *)

NoCommand == [type |-> "None"]

InitWith(inputs) ==
    /\ double_dash_args \in inputs
    /\ pc = "parse"
    /\ command = NoCommand
    /\ repo = 1
    /\ events = <<>>
    /\ visited = <<>>
    /\ exit_status = ""

Init == InitWith(ExecInputs) /\ check \in BOOLEAN /\ capture \in BOOLEAN

InitParse == InitWith(ParseInputs) /\ check = TRUE /\ capture = FALSE

\* "command = Cmd.parse(list(double_dash_args))"; a ValueError ends the
\* invocation
ParseArgs ==
    /\ pc = "parse"
    /\ command' = Parse(double_dash_args)
    /\ IF IsRaised(command')
       THEN pc' = "done" /\ exit_status' = command'.raised
       ELSE pc' = "loop" /\ UNCHANGED exit_status
    /\ UNCHANGED <<double_dash_args, check, capture, repo, events, visited>>

\* how an execute call ended, as kept for the repositories visited
Summary(r) ==
    IF IsRaised(r.ret)
    THEN [raised |-> r.ret.raised, exit_code |-> 0, spawned |-> r.n]
    ELSE [raised |-> "", exit_code |-> r.ret.exit_code, spawned |-> r.n]

\* one iteration of the loop with an execute that takes the first child off
\* the list of the node it ran
ExecRepoConsuming ==
    /\ pc = "loop"
    /\ repo <= NumRepos
    /\ \E env \in [1..Leaves(command) -> Outcomes] :
        LET cx == [check |-> check, capture |-> capture, env |-> env]
            r == Execute(command, <<>>, cx, 0)
        IN /\ events' = r.events
           /\ visited' = Append(visited, Summary(r))
           /\ IF IsRaised(r.ret)
              THEN pc' = "done" /\ exit_status' = r.ret.raised
                   /\ UNCHANGED repo
              ELSE IF check /\ r.ret.exit_code # 0
              THEN pc' = "done" /\ exit_status' = "ok" /\ UNCHANGED repo
              ELSE /\ repo' = repo + 1
                   /\ pc' = IF repo = NumRepos THEN "done" ELSE "loop"
                   /\ exit_status' = IF repo = NumRepos THEN "ok" ELSE ""
    /\ command' = IF command.type # "CmdSingle" /\ command.command # <<>>
                  THEN [command EXCEPT !.command = Tail(@)]
                  ELSE command
    /\ UNCHANGED <<double_dash_args, check, capture>>

\* one iteration of the loop that passes over the repository after the one
\* it ran in
ExecRepoSkipping ==
    /\ pc = "loop"
    /\ repo <= NumRepos
    /\ \E env \in [1..Leaves(command) -> Outcomes] :
        LET cx == [check |-> check, capture |-> capture, env |-> env]
            r == Execute(command, <<>>, cx, 0)
        IN /\ events' = r.events
           /\ visited' = Append(visited, Summary(r))
           /\ IF IsRaised(r.ret)
              THEN pc' = "done" /\ exit_status' = r.ret.raised
                   /\ UNCHANGED repo
              ELSE IF check /\ r.ret.exit_code # 0
              THEN pc' = "done" /\ exit_status' = "ok" /\ UNCHANGED repo
              ELSE /\ repo' = repo + 2
                   /\ pc' = IF repo = NumRepos THEN "done" ELSE "loop"
                   /\ exit_status' = IF repo = NumRepos THEN "ok" ELSE ""
    /\ UNCHANGED <<double_dash_args, check, capture, command>>

\* one iteration of "for repo in local_repositories(local)": the tree is
\* executed in the next repository; an exception ends the invocation, the
\* break ends the loop, and so does the last repository
ExecRepo ==
    /\ pc = "loop"
    /\ repo <= NumRepos
    /\ \E env \in [1..Leaves(command) -> Outcomes] :
        LET cx == [check |-> check, capture |-> capture, env |-> env]
            r == Execute(command, <<>>, cx, 0)
        IN /\ events' = r.events
           /\ visited' = Append(visited, Summary(r))
           /\ IF IsRaised(r.ret)
              THEN pc' = "done" /\ exit_status' = r.ret.raised
                   /\ UNCHANGED repo
              ELSE IF check /\ r.ret.exit_code # 0
              THEN pc' = "done" /\ exit_status' = "ok" /\ UNCHANGED repo
              ELSE /\ repo' = repo + 1
                   /\ pc' = IF repo = NumRepos THEN "done" ELSE "loop"
                   /\ exit_status' = IF repo = NumRepos THEN "ok" ELSE ""
    /\ UNCHANGED <<double_dash_args, check, capture, command>>

Next == ParseArgs \/ ExecRepo

Spec == Init /\ [][Next]_vars

SpecParse == InitParse /\ [][ParseArgs]_vars

----------------------------------------------------------------------------
(* Helpers of the properties. *)

\* the node at position path of a tree
RECURSIVE NodeAt(_, _)
NodeAt(node, path) ==
    IF path = <<>> THEN node ELSE NodeAt(node.command[Head(path)], Tail(path))

Parsed == pc # "parse" /\ ~IsRaised(command)

ClassOf(op) == IF op = "&&" THEN "CmdAnd" ELSE "CmdOr"

\* c1 op1 c2 ... cn: no bracket, no ";", an operator neither first nor last
\* nor next to another operator
IsChain(args) ==
    /\ args # <<>>
    /\ \A i \in DOMAIN args : args[i] \notin Brackets \cup {";"}
    /\ args[1] \notin Separators
    /\ args[Len(args)] \notin Separators
    /\ \A i \in 1..(Len(args) - 1) :
          ~(args[i] \in Separators /\ args[i + 1] \in Separators)

\* the right-nested tree of a chain: the first command and the tree of the
\* rest are the two children of a node of the first operator's class, the
\* children of a rest of that same class taking the place of the rest
RECURSIVE RightNested(_)
RightNested(args) ==
    IF \A i \in DOMAIN args : args[i] \notin Separators
    THEN [type |-> "CmdSingle", args |-> args]
    ELSE LET k == CHOOSE i \in DOMAIN args :
                    args[i] \in Separators
                    /\ \A j \in 1..(i - 1) : args[j] \notin Separators
             first == [type |-> "CmdSingle", args |-> SubSeq(args, 1, k - 1)]
             rest == RightNested(SubSeq(args, k + 1, Len(args)))
             cls == ClassOf(args[k])
         IN [type |-> cls,
             command |-> IF rest.type = cls THEN <<first>> \o rest.command
                         ELSE <<first, rest>>]

\* every CmdSequence, CmdOr and CmdAnd of the tree has a child
RECURSIVE WellFormed(_)
WellFormed(node) ==
    IF node.type = "CmdSingle" THEN node.args # <<>>
    ELSE /\ node.command # <<>>
         /\ \A i \in DOMAIN node.command : WellFormed(node.command[i])

IsPrefix(p, q) == Len(p) <= Len(q) /\ SubSeq(q, 1, Len(p)) = p

\* the execute call of the node at path, in the last repository visited
HasEvent(path) == \E k \in DOMAIN events : events[k].path = path

EventIx(path) == CHOOSE k \in DOMAIN events : events[k].path = path

Ret(path) == events[EventIx(path)].ret

\* no execute call was made on the node at path or on a node below it
NothingRunUnder(path) ==
    \A k \in DOMAIN events : ~IsPrefix(path, events[k].path)

\* the children of the node at path whose execute was called
Executed(path) ==
    {i \in DOMAIN NodeAt(command, path).command : HasEvent(Append(path, i))}

Max(S) == CHOOSE x \in S : \A y \in S : y <= x

\* the execute call returned a result with this exit code
ReturnedCode(path, rc) == ~IsRaised(Ret(path)) /\ Ret(path).exit_code = rc

ReturnedNonZero(path) == ~IsRaised(Ret(path)) /\ Ret(path).exit_code # 0

\* a child process could not be started during the last execute call
LaunchFailed ==
    \E k \in DOMAIN events :
        IsRaised(events[k].ret) /\ events[k].ret.raised = "FileNotFoundError"

\* the children of the node at path were executed from the first on, in list
\* order, none skipped
InListOrder(path) ==
    \A i \in Executed(path) : \A j \in 1..(i - 1) :
        j \in Executed(path)
        /\ EventIx(Append(path, j)) < EventIx(Append(path, i))

\* the result of the node at path has the exit code of the last child
\* executed, when that child returned one
MirrorsLastExecuted(path) ==
    LET ex == Executed(path) IN
    (ex # {} /\ ~IsRaised(Ret(Append(path, Max(ex)))))
        => /\ ~IsRaised(Ret(path))
           /\ Ret(path).exit_code = Ret(Append(path, Max(ex))).exit_code

\* the child process of the CmdSingle at path was started and exited with a
\* non-zero code, returned as a result or raised as CalledProcessError
ExitedNonZero(path) ==
    /\ HasEvent(path)
    /\ events[EventIx(path)].type = "CmdSingle"
    /\ IF IsRaised(Ret(path)) THEN Ret(path).raised = "CalledProcessError"
       ELSE Ret(path).exit_code # 0

\* the command word was run as a CmdSingle of its own in the last execute call
Ran(word) ==
    \E k \in DOMAIN events :
        /\ events[k].type = "CmdSingle"
        /\ NodeAt(command, events[k].path).args = <<word>>

RanAndExitedNonZero(word) ==
    \E k \in DOMAIN events :
        /\ events[k].type = "CmdSingle"
        /\ NodeAt(command, events[k].path).args = <<word>>
        /\ ExitedNonZero(events[k].path)

\* a node of class cls whose children are two CmdSingle
IsPairOfSingles(node, cls) ==
    /\ ~IsRaised(node)
    /\ node.type = cls
    /\ Len(node.command) = 2
    /\ \A i \in 1..2 : node.command[i].type = "CmdSingle"

\* the invocation ended with an exception
EndedInFailure == pc = "done" /\ exit_status \notin {"", "ok"}

----------------------------------------------------------------------------
(* The properties. *)

\* C1: a chain c1 op1 c2 ... cn of commands joined by && and || parses to the
\* right-nested tree: the first command and the tree of the rest under the
\* first operator, operators of different types never merged into one node
\* (a && b || c is And[a, Or[b, c]], a || b && c is Or[a, And[b, c]]).
C1_ChainParsesRightNested ==
    (pc # "parse" /\ IsChain(double_dash_args))
        => command = RightNested(double_dash_args)

C1_Witness ==
    /\ pc # "parse"
    /\ double_dash_args = <<"a", "&&", "b", "||", "a", "&&", "b">>
    /\ command =
         [type |-> "CmdAnd", command |-> <<
            [type |-> "CmdSingle", args |-> <<"a">>],
            [type |-> "CmdOr", command |-> <<
               [type |-> "CmdSingle", args |-> <<"b">>],
               [type |-> "CmdAnd", command |-> <<
                  [type |-> "CmdSingle", args |-> <<"a">>],
                  [type |-> "CmdSingle", args |-> <<"b">>]>>]>>]>>]

\* C2: with check off, the execute call of every CmdAnd node, at any depth,
\* runs its children in list order from the first on, goes on to the next
\* child after a child that returned exit code 0, runs nothing after the
\* first child that returned a non-zero exit code, and returns the exit code
\* of the last child it executed.
C2_AndStopsAtFirstFailure ==
    ~check =>
      \A k \in DOMAIN events : events[k].type = "CmdAnd" =>
        LET path == events[k].path
            kids == NodeAt(command, path).command
        IN /\ InListOrder(path)
           /\ kids # <<>> => 1 \in Executed(path)
           /\ \A i \in Executed(path) :
                /\ (ReturnedCode(Append(path, i), 0) /\ i < Len(kids))
                      => (i + 1) \in Executed(path)
                /\ ReturnedNonZero(Append(path, i))
                      => \A j \in (i + 1)..Len(kids) :
                            NothingRunUnder(Append(path, j))
           /\ MirrorsLastExecuted(path)

\* a && b && c with a exiting 0 and b exiting 2: c is not run, the result is 2
C2_Witness ==
    /\ ~check
    /\ \E k \in DOMAIN events :
        /\ events[k].type = "CmdAnd"
        /\ Len(NodeAt(command, events[k].path).command) = 3
        /\ Executed(events[k].path) = {1, 2}
        /\ ReturnedCode(Append(events[k].path, 1), 0)
        /\ ReturnedCode(Append(events[k].path, 2), 2)
        /\ ReturnedCode(events[k].path, 2)

\* C3: with check off, the execute call of every CmdOr node, at any depth,
\* runs its children in list order from the first on, goes on to the next
\* child after a child that returned a non-zero exit code, runs nothing after
\* the first child that returned exit code 0, and returns the exit code of
\* the last child it executed.
C3_OrStopsAtFirstSuccess ==
    ~check =>
      \A k \in DOMAIN events : events[k].type = "CmdOr" =>
        LET path == events[k].path
            kids == NodeAt(command, path).command
        IN /\ InListOrder(path)
           /\ kids # <<>> => 1 \in Executed(path)
           /\ \A i \in Executed(path) :
                /\ (ReturnedNonZero(Append(path, i)) /\ i < Len(kids))
                      => (i + 1) \in Executed(path)
                /\ ReturnedCode(Append(path, i), 0)
                      => \A j \in (i + 1)..Len(kids) :
                            NothingRunUnder(Append(path, j))
           /\ MirrorsLastExecuted(path)

\* a || b || c with a exiting 1 and b exiting 0: c is not run, the result is 0
C3_Witness ==
    /\ ~check
    /\ \E k \in DOMAIN events :
        /\ events[k].type = "CmdOr"
        /\ Len(NodeAt(command, events[k].path).command) = 3
        /\ Executed(events[k].path) = {1, 2}
        /\ ReturnedCode(Append(events[k].path, 1), 1)
        /\ ReturnedCode(Append(events[k].path, 2), 0)
        /\ ReturnedCode(events[k].path, 0)

\* C4: the execute call of every CmdSequence node runs every child, in list
\* order, whatever the exit codes of the earlier children, and a result it
\* returns has the exit code of the last child of the list (stated for fully
\* formed trees whose child processes can all be started).
C4_SequenceRunsEveryChild ==
    (Parsed /\ WellFormed(command) /\ ~LaunchFailed) =>
      \A k \in DOMAIN events : events[k].type = "CmdSequence" =>
        LET path == events[k].path
            kids == NodeAt(command, path).command
        IN /\ InListOrder(path)
           /\ Executed(path) = DOMAIN kids
           /\ ~IsRaised(Ret(path)) =>
                Ret(path).exit_code = Ret(Append(path, Len(kids))).exit_code

\* the part of C4 that the code satisfies: the same with check off
C4_SequenceRunsEveryChildNoCheck == ~check => C4_SequenceRunsEveryChild

\* C5: with check on, a non-zero exit code absorbed by an enclosing CmdOr is
\* no failure: after a CmdSingle child of a CmdOr exited non-zero the next
\* child is run, and when that one returns exit code 0 the CmdOr returns a
\* result with exit code 0.
C5_OrAbsorbsFailureUnderCheck ==
    check =>
      \A k \in DOMAIN events : events[k].type = "CmdOr" =>
        LET path == events[k].path
            kids == NodeAt(command, path).command
        IN \A i \in 1..(Len(kids) - 1) :
             ExitedNonZero(Append(path, i)) =>
                /\ HasEvent(Append(path, i + 1))
                /\ ReturnedCode(Append(path, i + 1), 0) => ReturnedCode(path, 0)

\* C6: with check on, the remaining repositories are given up only when the
\* top-level exit code is non-zero: for a CmdSequence of CmdSingle children,
\* whose exit code is that of its last child, the run stops before the last
\* repository only if the last child was run and exited non-zero.
C6_AbortOnlyOnTopLevelNonZero ==
    ( /\ check
      /\ pc = "done"
      /\ Parsed
      /\ command.type = "CmdSequence"
      /\ WellFormed(command)
      /\ \A i \in DOMAIN command.command :
            command.command[i].type = "CmdSingle"
      /\ ~LaunchFailed
      /\ Len(visited) < NumRepos )
    => ExitedNonZero(<<Len(command.command)>>)

\* C7: with check on, when the second command of Sequence[A, F] exits
\* non-zero in the first repository after A succeeded there, A was run in
\* the first repository, the tree is executed in no later repository and
\* the invocation ends in failure.
C7_SequenceFailureAbortsBatch ==
    ( /\ check
      /\ IsPairOfSingles(command, "CmdSequence")
      /\ visited # <<>>
      /\ visited[1].spawned = 2
      /\ \/ visited[1].raised = "CalledProcessError"
         \/ visited[1].raised = "" /\ visited[1].exit_code # 0 )
    => /\ Len(visited) = 1
       /\ repo = 1
       /\ ReturnedCode(<<1>>, 0)
       /\ ExitedNonZero(<<2>>)
       /\ EndedInFailure

C7_Witness ==
    /\ check
    /\ double_dash_args = <<"a", ";", "b">>
    /\ Len(visited) = 1
    /\ ReturnedCode(<<1>>, 0)
    /\ ExitedNonZero(<<2>>)
    /\ EndedInFailure

\* C8: with check off, a non-zero exit code stops nothing: no execute call
\* at any depth raises CalledProcessError, the loop goes on to the next
\* repository after every execute call that returned, and once the
\* invocation is over without another exception the tree has been executed
\* in every repository and the invocation has ended successfully.
C8_NoCheckNeverStops ==
    (~check /\ Parsed) =>
       /\ \A k \in DOMAIN events :
             IsRaised(events[k].ret) =>
                events[k].ret.raised # "CalledProcessError"
       /\ \A i \in DOMAIN visited : visited[i].raised # "CalledProcessError"
       /\ pc = "loop" =>
             /\ Len(visited) = repo - 1
             /\ \A i \in DOMAIN visited : visited[i].raised = ""
       /\ (pc = "done" /\ \A i \in DOMAIN visited : visited[i].raised = "") =>
             /\ Len(visited) = NumRepos
             /\ exit_status = "ok"

\* a ; b run in every repository although b exits non-zero in the first
C8_Witness ==
    /\ ~check
    /\ double_dash_args = <<"a", ";", "b">>
    /\ pc = "done"
    /\ Len(visited) = NumRepos
    /\ visited[1].exit_code # 0
    /\ \A i \in DOMAIN visited : visited[i].spawned = 2
    /\ exit_status = "ok"

\* C9: a group that holds a sequence is one operand of the && before it:
\* when a && ( b ; c ) is executed with check off and a exits non-zero,
\* neither b nor c is run (every child process being one that can be started).
C9_GroupedSequenceIsOneOperand ==
    ( /\ ~check
      /\ double_dash_args = <<"a", "&&", "(", "b", ";", "c", ")">>
      /\ Parsed
      /\ ~LaunchFailed
      /\ RanAndExitedNonZero("a") )
    => ~Ran("b") /\ ~Ran("c")

\* C10: a group nested in a group of the same bracket kind parses, the inner
\* group being a subtree of the outer one: a && ( b || ( c && d ) ) gives
\* And[a, Or[b, And[c, d]]].
C10_NestedGroupsParse ==
    ( /\ pc # "parse"
      /\ double_dash_args =
           <<"a", "&&", "(", "b", "||", "(", "c", "&&", "d", ")", ")">> )
    => command =
         [type |-> "CmdAnd", command |-> <<
            [type |-> "CmdSingle", args |-> <<"a">>],
            [type |-> "CmdOr", command |-> <<
               [type |-> "CmdSingle", args |-> <<"b">>],
               [type |-> "CmdAnd", command |-> <<
                  [type |-> "CmdSingle", args |-> <<"c">>],
                  [type |-> "CmdSingle", args |-> <<"d">>]>>]>>]>>]

\* the commands of a token list without brackets: the maximal runs of tokens
\* that are no separator, each as a CmdSingle, in input order
RECURSIVE Commands(_)
Commands(args) ==
    IF args = <<>> THEN <<>>
    ELSE IF \A i \in DOMAIN args : args[i] \notin Separators
    THEN <<[type |-> "CmdSingle", args |-> args]>>
    ELSE LET k == CHOOSE i \in DOMAIN args :
                    args[i] \in Separators
                    /\ \A j \in 1..(i - 1) : args[j] \notin Separators
         IN (IF k = 1 THEN <<>>
             ELSE <<[type |-> "CmdSingle", args |-> SubSeq(args, 1, k - 1)]>>)
            \o Commands(SubSeq(args, k + 1, Len(args)))

\* the separators that occur in a token list
SeparatorsOf(args) == {args[i] : i \in {j \in DOMAIN args : args[j] \in Separators}}

\* c1 op c2 ... op cn without brackets: n >= 2 commands joined by op alone
IsChainOf(args, op) ==
    /\ args # <<>>
    /\ \A i \in DOMAIN args : args[i] \notin Brackets
    /\ SeparatorsOf(args) = {op}
    /\ args[1] \notin Separators
    /\ args[Len(args)] \notin Separators
    /\ \A i \in 1..(Len(args) - 1) :
          ~(args[i] \in Separators /\ args[i + 1] \in Separators)

\* C11: Cmd.parse raises ValueError("No command provided.") for the empty
\* token list and for every token list made of separators (;, &&, ||) only.
C11_OnlySeparatorsIsEmptyCommand ==
    ( /\ pc # "parse"
      /\ \A i \in DOMAIN double_dash_args : double_dash_args[i] \in Separators )
    => command = [raised |-> "ValueError", msg |-> "No command provided."]

\* C12: every tree Cmd.parse returns is fully formed: every CmdSequence,
\* CmdAnd and CmdOr in it has a child and every CmdSingle has an argument.
C12_ParsedTreeIsFullyFormed == Parsed => WellFormed(command)

\* C13: three or more commands joined by && alone, or by || alone, parse to
\* one CmdAnd, or one CmdOr, whose children are the commands in input order
\* (chains of two commands included).
C13_SameOperatorChainIsFlat ==
    \A op \in {"&&", "||"} :
      (pc # "parse" /\ IsChainOf(double_dash_args, op))
        => command = [type |-> ClassOf(op),
                      command |-> Commands(double_dash_args)]

C13_Witness ==
    /\ pc # "parse"
    /\ double_dash_args = <<"a", "&&", "b", "&&", "a", "b", "&&", "a">>
    /\ command.type = "CmdAnd"
    /\ Len(command.command) = 4
    /\ \A i \in 1..4 : command.command[i].type = "CmdSingle"
    /\ command.command[3].args = <<"a", "b">>

\* C14: x && ( y || z ) ; w parses to
\* Sequence[And[Single(x), Or[Single(y), Single(z)]], Single(w)].
C14_GroupThenSequence ==
    ( /\ pc # "parse"
      /\ double_dash_args = <<"x", "&&", "(", "y", "||", "z", ")", ";", "w">> )
    => command =
         [type |-> "CmdSequence", command |-> <<
            [type |-> "CmdAnd", command |-> <<
               [type |-> "CmdSingle", args |-> <<"x">>],
               [type |-> "CmdOr", command |-> <<
                  [type |-> "CmdSingle", args |-> <<"y">>],
                  [type |-> "CmdSingle", args |-> <<"z">>]>>]>>],
            [type |-> "CmdSingle", args |-> <<"w">>]>>]

C14_Witness ==
    /\ pc = "loop"
    /\ double_dash_args = <<"x", "&&", "(", "y", "||", "z", ")", ";", "w">>
    /\ command.type = "CmdSequence"
    /\ Len(command.command) = 2
    /\ command.command[1].type = "CmdAnd"
    /\ command.command[1].command[2].type = "CmdOr"

\* the kind of failure a ValueError of Cmd.parse stands for, by its message
ErrorKind(exc) ==
    CASE exc.msg = "No command provided." -> "EmptyCommand"
      [] exc.msg \in {"Unexpected argument before opening parenthesis.",
                      "Unexpected argument before opening brace."} ->
            "UnexpectedToken"
      [] exc.msg \in {"Unmatched opening parenthesis.",
                      "Unmatched opening brace.",
                      "Unmatched closing parenthesis or brace."} ->
            "UnmatchedBracket"
      [] OTHER -> "Unknown"

\* what a call of Cmd.parse came to: the tree returned, or the kind of the
\* failure
Outcome(x) ==
    IF IsRaised(x) THEN [failed |-> TRUE, kind |-> ErrorKind(x), tree |-> NoCommand]
    ELSE [failed |-> FALSE, kind |-> "", tree |-> x]

\* the token list with every ( replaced by { and every ) by }
Braced(args) ==
    [i \in DOMAIN args |->
        CASE args[i] = "(" -> "{"
          [] args[i] = ")" -> "}"
          [] OTHER -> args[i]]

IsWord(t) == t \notin Separators \cup Brackets

\* position i holds the first bracket token of the list
FirstBracketAt(args, i) ==
    /\ i \in DOMAIN args
    /\ args[i] \in Brackets
    /\ \A j \in 1..(i - 1) : args[j] \notin Brackets

\* how often the token t occurs in the list
Count(args, t) == Cardinality({i \in DOMAIN args : args[i] = t})

\* no CmdSequence, CmdOr or CmdAnd of the tree has a child of its own class
RECURSIVE NoSameTypeChild(_)
NoSameTypeChild(node) ==
    IF node.type = "CmdSingle" THEN TRUE
    ELSE \A i \in DOMAIN node.command :
            /\ node.command[i].type # node.type
            /\ NoSameTypeChild(node.command[i])

\* C15: for every token list without braces, replacing every ( by { and
\* every ) by } gives the same outcome of Cmd.parse: the same tree, or a
\* failure of the same kind.
C15_BracesParseLikeParentheses ==
    ( /\ pc # "parse"
      /\ \A i \in DOMAIN double_dash_args :
            double_dash_args[i] \notin {"{", "}"} )
    => Outcome(command) = Outcome(Parse(Braced(double_dash_args)))

C15_Witness ==
    /\ pc = "loop"
    /\ double_dash_args = <<"a", "||", "(", "b", "&&", "c", ")">>
    /\ command.type = "CmdOr"
    /\ command.command[2].type = "CmdAnd"
    /\ command = Parse(<<"a", "||", "{", "b", "&&", "c", "}">>)

\* C16: commands separated by ; alone parse to one CmdSequence whose children
\* are the commands, as CmdSingle, in input order; a ; b gives exactly the two
\* children Single(a), Single(b).
C16_SemicolonChainIsOneSequence ==
    (pc # "parse" /\ IsChainOf(double_dash_args, ";"))
      => command = [type |-> "CmdSequence",
                    command |-> Commands(double_dash_args)]

C16_Witness ==
    /\ pc = "loop"
    /\ double_dash_args = <<"a", ";", "b">>
    /\ command = [type |-> "CmdSequence", command |-> <<
                    [type |-> "CmdSingle", args |-> <<"a">>],
                    [type |-> "CmdSingle", args |-> <<"b">>]>>]

\* C17: a non-empty token list without separator and without bracket parses
\* to a CmdSingle whose args are the input tokens, in order.
C17_PlainTokensAreOneSingle ==
    ( /\ pc # "parse"
      /\ double_dash_args # <<>>
      /\ \A i \in DOMAIN double_dash_args : IsWord(double_dash_args[i]) )
    => command = [type |-> "CmdSingle", args |-> double_dash_args]

C17_Witness ==
    /\ pc = "loop"
    /\ double_dash_args = <<"a", "b", "b">>
    /\ command.type = "CmdSingle"
    /\ command.args = <<"a", "b", "b">>

\* C18: an opening bracket met while the argument buffer holds a word makes
\* Cmd.parse fail with "Unexpected argument before opening ..." (kind
\* UnexpectedToken), whether a closing bracket follows or not: so it is for
\* the first bracket token of the list, and for the first bracket token of
\* the body of a group that opens the list.
C18_ArgumentBeforeGroupIsUnexpectedToken ==
    pc # "parse" =>
      /\ \A i \in DOMAIN double_dash_args :
            ( /\ FirstBracketAt(double_dash_args, i)
              /\ double_dash_args[i] \in {"(", "{"}
              /\ i > 1
              /\ IsWord(double_dash_args[i - 1]) )
            => command = ValueError(
                  IF double_dash_args[i] = "("
                  THEN "Unexpected argument before opening parenthesis."
                  ELSE "Unexpected argument before opening brace.")
      /\ \A o \in {"(", "{"} :
            LET c == IF o = "(" THEN ")" ELSE "}" IN
            ( /\ double_dash_args # <<>>
              /\ double_dash_args[1] = o
              /\ Occurs(double_dash_args, c, 2) )
            => LET body == SubSeq(double_dash_args, 2,
                                  IndexOf(double_dash_args, c, 2) - 1)
               IN \A i \in DOMAIN body :
                    ( /\ FirstBracketAt(body, i)
                      /\ body[i] \in {"(", "{"}
                      /\ i > 1
                      /\ IsWord(body[i - 1]) )
                    => /\ IsRaised(command)
                       /\ ErrorKind(command) = "UnexpectedToken"

C18_Witness ==
    /\ pc = "done"
    /\ double_dash_args = <<"a", "(">>
    /\ IsRaised(command)
    /\ command.msg = "Unexpected argument before opening parenthesis."
    /\ ErrorKind(command) = "UnexpectedToken"

\* C19: a bracket without its counterpart makes Cmd.parse fail.  A list whose
\* first bracket token is a closing one fails with "Unmatched closing
\* parenthesis or brace."; a list whose first bracket token is an opening one
\* that stands first or after a separator, with no closing bracket of its
\* kind after it, fails with "Unmatched opening ..." (both of kind
\* UnmatchedBracket); and no list with more, or fewer, opening than closing
\* brackets of a kind is parsed to a tree.
C19_LoneBracketIsUnmatchedBracket ==
    pc # "parse" =>
      /\ \A i \in DOMAIN double_dash_args :
            FirstBracketAt(double_dash_args, i) =>
              /\ double_dash_args[i] \in {")", "}"} =>
                    command =
                      ValueError("Unmatched closing parenthesis or brace.")
              /\ ( /\ double_dash_args[i] = "("
                   /\ (i = 1 \/ double_dash_args[i - 1] \in Separators)
                   /\ ~\E j \in (i + 1)..Len(double_dash_args) :
                          double_dash_args[j] = ")" )
                 => command = ValueError("Unmatched opening parenthesis.")
              /\ ( /\ double_dash_args[i] = "{"
                   /\ (i = 1 \/ double_dash_args[i - 1] \in Separators)
                   /\ ~\E j \in (i + 1)..Len(double_dash_args) :
                          double_dash_args[j] = "}" )
                 => command = ValueError("Unmatched opening brace.")
      /\ ( \/ Count(double_dash_args, "(") # Count(double_dash_args, ")")
           \/ Count(double_dash_args, "{") # Count(double_dash_args, "}") )
         => IsRaised(command)

C19_Witness ==
    /\ pc = "done"
    /\ double_dash_args = <<"a", ";", "(">>
    /\ IsRaised(command)
    /\ ErrorKind(command) = "UnmatchedBracket"

\* C20: no CmdSequence, CmdOr or CmdAnd of a tree returned by Cmd.parse, or
\* built by a constructor from such a tree and a CmdSingle, has a child of its
\* own class; the constructor takes the children of a tree of its own class,
\* and keeps a tree of another class as one child.
C20_NoSameTypeChild ==
    Parsed =>
      /\ NoSameTypeChild(command)
      /\ \A cls \in {"CmdSequence", "CmdOr", "CmdAnd"} :
            LET leaf == [type |-> "CmdSingle", args |-> <<"a">>]
                built == New(cls, <<command, leaf, command>>)
            IN /\ NoSameTypeChild(built)
               /\ built.type = cls
               /\ built.command =
                    IF command.type = cls
                    THEN command.command \o <<leaf>> \o command.command
                    ELSE <<command, leaf, command>>

C20_Witness ==
    /\ pc = "loop"
    /\ double_dash_args = <<"a", "||", "b", "||", "a", "&&", "b">>
    /\ command.type = "CmdOr"
    /\ Len(command.command) = 3
    /\ command.command[3].type = "CmdAnd"
    /\ New("CmdOr", <<command, command>>).command
         = command.command \o command.command
    /\ New("CmdAnd", <<command, command>>).command = <<command, command>>

\* the execute call in the i-th repository visited ended because a child
\* process could not be started
SpawnErrorIn(i) == visited[i].raised = "FileNotFoundError"

\* C21: with check off, a child process that cannot be started in one
\* repository ends that repository's run only: once the invocation is over,
\* no execute call having ended otherwise than by a result or by such an
\* error, the tree has been executed in every repository.
C21_SpawnErrorSkipsOneRepository ==
    ( /\ ~check
      /\ Parsed
      /\ WellFormed(command)
      /\ pc = "done"
      /\ \A i \in DOMAIN visited : visited[i].raised = "" \/ SpawnErrorIn(i) )
    => Len(visited) = NumRepos

\* the execute call of the node at path raised FileNotFoundError
SpawnErrorAt(path) ==
    /\ HasEvent(path)
    /\ IsRaised(Ret(path))
    /\ Ret(path).raised = "FileNotFoundError"

\* C22: when the execute call of a child of a CmdSequence, CmdOr or CmdAnd
\* node raises because a child process cannot be started, the execute call of
\* the node raises that same error and returns no result, and no later child
\* of the node is executed (with check on and with check off, a CmdOr
\* included).
C22_SpawnErrorPropagates ==
    \A k \in DOMAIN events : events[k].type # "CmdSingle" =>
      LET path == events[k].path
          kids == NodeAt(command, path).command
      IN \A i \in DOMAIN kids :
            SpawnErrorAt(Append(path, i)) =>
               /\ SpawnErrorAt(path)
               /\ Ret(path) = Ret(Append(path, i))
               /\ \A j \in (i + 1)..Len(kids) : NothingRunUnder(Append(path, j))
               /\ EventIx(path) > EventIx(Append(path, i))

\* a || b with check off, a cannot be started: b is not run, the CmdOr raises
C22_Witness ==
    /\ ~check
    /\ double_dash_args = <<"a", "||", "b">>
    /\ SpawnErrorAt(<<1>>)
    /\ NothingRunUnder(<<2>>)
    /\ SpawnErrorAt(<<>>)
    /\ exit_status = "FileNotFoundError"

\* the texts of a list, in order, with the separator marker between each two
RECURSIVE Interleaved(_)
Interleaved(texts) ==
    IF texts = <<>> THEN <<>>
    ELSE IF Len(texts) = 1 THEN texts[1]
    ELSE Interleaved(SubSeq(texts, 1, Len(texts) - 1))
            \o <<"\n######\n">> \o texts[Len(texts)]

\* how many separator markers a text holds
Markers(text) == Count(text, "\n######\n")

RECURSIVE Sum(_)
Sum(ns) == IF ns = <<>> THEN 0 ELSE Head(ns) + Sum(Tail(ns))

\* the results the children of the node at path returned, child by child
ChildResults(path) ==
    [i \in DOMAIN NodeAt(command, path).command |-> Ret(Append(path, i))]

\* C23: with capture on, the stdout, and the stderr, of the result a
\* CmdSequence returns is the text of every child's stream, in child order,
\* joined by the separator marker, with n - 1 markers of its own for n
\* children; with capture off the stdout and stderr of every result, at every
\* node, are absent.
C23_SequenceJoinsEveryStream ==
    \A k \in DOMAIN events : ~IsRaised(events[k].ret) =>
      LET path == events[k].path
          ret == events[k].ret
      IN /\ ~capture => (~ret.stdout.present /\ ~ret.stderr.present)
         /\ capture => (ret.stdout.present /\ ret.stderr.present)
         /\ (capture /\ events[k].type = "CmdSequence") =>
              LET n == Len(NodeAt(command, path).command)
                  kids == ChildResults(path)
              IN /\ Executed(path) = 1..n
                 /\ \A i \in 1..n : ~IsRaised(kids[i])
                 /\ ret.stdout.text =
                      Interleaved([i \in 1..n |-> kids[i].stdout.text])
                 /\ ret.stderr.text =
                      Interleaved([i \in 1..n |-> kids[i].stderr.text])
                 /\ Markers(ret.stdout.text) =
                      (n - 1) + Sum([i \in 1..n |-> Markers(kids[i].stdout.text)])
                 /\ Markers(ret.stderr.text) =
                      (n - 1) + Sum([i \in 1..n |-> Markers(kids[i].stderr.text)])

\* a ; b ; c with capture on, b alone writing nothing to its standard output
C23_Witness ==
    /\ capture
    /\ double_dash_args = <<"a", ";", "b", ";", "c">>
    /\ HasEvent(<<>>)
    /\ ~IsRaised(Ret(<<>>))
    /\ Ret(<<>>).stdout.text = <<"a", "\n######\n", "\n######\n", "c">>
    /\ Ret(<<>>).stderr.text = <<"\n######\n", "b", "\n######\n">>

C25_ExecuteLeavesTreeUnchanged ==
    Parsed =>
      /\ command = Parse(double_dash_args)
      /\ \A k \in DOMAIN events :
            events[k].type = NodeAt(Parse(double_dash_args), events[k].path).type

\* the tree of a && ( b || c ) after it was executed in every repository, with
\* a non-zero exit code in the first
C25_Witness ==
    /\ pc = "done"
    /\ double_dash_args = <<"a", "&&", "(", "b", "||", "c", ")">>
    /\ Len(visited) = NumRepos
    /\ visited[1].exit_code # 0
    /\ visited[NumRepos].spawned = 3
    /\ command =
         [type |-> "CmdAnd", command |-> <<
            [type |-> "CmdSingle", args |-> <<"a">>],
            [type |-> "CmdOr", command |-> <<
               [type |-> "CmdSingle", args |-> <<"b">>],
               [type |-> "CmdSingle", args |-> <<"c">>]>>]>>]

\* the execute calls of CmdSingle nodes logged for the last repository visited
SingleEvents == {k \in DOMAIN events : events[k].type = "CmdSingle"}

\* C26: the repositories are run in one after the other, in the order
\* local_repositories yields them, none passed over and none run in twice:
\* the i-th execute call of the invocation is the one of the i-th repository.
\* An execute call is over, every child process it started having exited (or
\* failed to start), before the loop moves on: the calls logged are those of
\* the last repository visited alone, one per child process started there.
C26_RepositoriesInOrderOneAtATime ==
    /\ Len(visited) <= NumRepos
    /\ pc = "parse" => (visited = <<>> /\ events = <<>> /\ repo = 1)
    /\ pc = "loop" => (repo = Len(visited) + 1 /\ repo <= NumRepos)
    /\ (pc = "done" /\ Parsed) =>
          /\ visited # <<>>
          /\ repo \in {Len(visited), Len(visited) + 1}
          /\ repo = Len(visited) + 1 => Len(visited) = NumRepos
    /\ visited # <<>> =>
          /\ Cardinality(SingleEvents) = visited[Len(visited)].spawned
          /\ \A i \in DOMAIN visited :
                (i < Len(visited)) => visited[i].raised = ""

\* the second repository run in after the first, three child processes each
C26_Witness ==
    /\ pc = "done"
    /\ double_dash_args = <<"a", ";", "b", ";", "c">>
    /\ Len(visited) = NumRepos
    /\ repo = NumRepos + 1
    /\ \A i \in DOMAIN visited : visited[i].spawned = 3
    /\ Cardinality(SingleEvents) = 3

\* text.split(): the maximal runs of pieces without a space, each run one
\* token; cur is the token being read
RECURSIVE SplitFrom(_, _)
SplitFrom(text, cur) ==
    IF text = <<>> THEN (IF cur = "" THEN <<>> ELSE <<cur>>)
    ELSE IF Head(text) = " "
    THEN (IF cur = "" THEN <<>> ELSE <<cur>>) \o SplitFrom(Tail(text), "")
    ELSE SplitFrom(Tail(text), cur \o Head(text))

SplitWhitespace(text) == SplitFrom(text, "")

\* the tokens of a text for a reader that takes every bracket as a token of
\* its own: every piece but the spaces
SplitBrackets(text) == SelectSeq(text, LAMBDA piece : piece # " ")

\* C27: round trip.  For every fully formed tree t Cmd.parse returns (here:
\* for a token list of words and separators), the tokens of str(t) parse to t
\* again, the text being split at the spaces or, failing that, with every
\* bracket taken as a token of its own.
C27_StrThenParseIsIdentity ==
    ( /\ Parsed
      /\ WellFormed(command)
      /\ \A i \in DOMAIN double_dash_args : double_dash_args[i] \notin Brackets )
    =>
       \/ Parse(SplitWhitespace(ToStr(command))) = command
       \/ Parse(SplitBrackets(ToStr(command))) = command

\* the part of C27 that the code satisfies: a CmdSingle is rendered as its
\* words and read back as the same CmdSingle
C27_SingleRoundTrip ==
    (Parsed /\ command.type = "CmdSingle") =>
       Parse(SplitWhitespace(ToStr(command))) = command

\* the stack the scan loop of Cmd.parse leaves for the combination pass
StackOf(args) == Scan(args, 1, <<>>, <<>>).stack

\* the marker a && or a || pushed on the stack: a CmdAnd or CmdOr without
\* children
IsMarker(x) == x.type \in {"CmdAnd", "CmdOr"} /\ x.command = <<>>

\* nodes and markers in strict alternation, a node first and a node last
Alternates(run) ==
    /\ Len(run) % 2 = 1
    /\ \A i \in DOMAIN run : IsMarker(run[i]) <=> (i % 2 = 0)

\* C28: whenever the combination pass of Cmd.parse runs, each run of the
\* stack between the ; delimiters (each group of groupby that holds no
\* CmdSequence) is a strict alternation of nodes and And/Or markers that
\* begins and ends with a node (stated for the stacks whose CmdSequence
\* elements are all ; markers, none the tree of a group).
C28_RunsAlternate ==
    ( /\ Parsed
      /\ \A i \in DOMAIN StackOf(double_dash_args) :
            IsInstance(StackOf(double_dash_args)[i], "CmdSequence")
               => StackOf(double_dash_args)[i].command = <<>> )
    =>
      LET runs == GroupBy(StackOf(double_dash_args)) IN
      \A r \in DOMAIN runs :
         ~IsInstance(runs[r][1], "CmdSequence") => Alternates(runs[r])

\* C29: with check on, every result an execute call returns, for a node of
\* any class at any depth, has exit code 0 (a non-zero exit is raised as
\* CalledProcessError, never returned); so the test "check and
\* result.exit_code != 0" of exec_cmd is never true: the loop is never left by
\* its break, and an invocation that ends without an exception has run in
\* every repository.
C29_CheckedResultsAreZero ==
    check =>
      /\ \A k \in DOMAIN events :
            ~IsRaised(events[k].ret) => events[k].ret.exit_code = 0
      /\ \A i \in DOMAIN visited :
            visited[i].raised = "" => visited[i].exit_code = 0
      /\ (Parsed /\ pc = "done" /\ exit_status = "ok")
            => (Len(visited) = NumRepos /\ repo = NumRepos + 1)

\* a && ( b || c ) with check on: every node returns, with exit code 0, in
\* every repository
C29_Witness ==
    /\ check
    /\ double_dash_args = <<"a", "&&", "(", "b", "||", "c", ")">>
    /\ pc = "done"
    /\ exit_status = "ok"
    /\ Len(visited) = NumRepos
    /\ ReturnedCode(<<>>, 0)
    /\ ReturnedCode(<<2>>, 0)
    /\ ReturnedCode(<<2, 1>>, 0)

\* the words of the CmdSingle leaves of a tree, left to right
RECURSIVE LeafWords(_), LeafWordsOf(_)
LeafWordsOf(cmds) ==
    IF cmds = <<>> THEN <<>>
    ELSE LeafWords(Head(cmds)) \o LeafWordsOf(Tail(cmds))

LeafWords(node) ==
    IF node.type = "CmdSingle" THEN node.args ELSE LeafWordsOf(node.command)

\* C30: Cmd.parse loses, duplicates and reorders no word: for every token
\* list it returns a tree for, the argument lists of the CmdSingle leaves of
\* the tree, taken left to right, make up the input tokens without the
\* separators and the brackets.
C30_ParseKeepsEveryWord ==
    Parsed => LeafWords(command) = SelectSeq(double_dash_args, IsWord)

C30_Witness ==
    /\ pc = "loop"
    /\ double_dash_args =
         <<"a", "&&", "(", "b", "||", "{", "c", ";", "d", "}", ")">>
    /\ LeafWords(command) = <<"a", "b", "c", "d">>
    /\ Leaves(command) = 4

====
